---- MODULE Spec2Model ----
(***************************************************************************)
(* Model of libxauth-rs: the filesystem lock (src/lock.rs), the record     *)
(* codec (src/encoding.rs) and the authority file handle (src/lib.rs).     *)
(*                                                                         *)
(* The specifications share the variables:                                 *)
(*   SpecLock      processes run aqquire / drop with their filesystem      *)
(*                 steps interleaved;                                      *)
(*   SpecSeq       the same calls, each running to completion;             *)
(*   SpecExt       as SpecSeq, with another party removing lock files;     *)
(*   SpecCodec     Entry::write_to / Entry::read_from over byte streams;   *)
(*   SpecContainer XAuthority::add_entry / write_to / read_from;           *)
(*   SpecFile      XAuthorityFile::get / set / append over one file;       *)
(*   SpecHandle    an XAuthorityFile that owns its Lock, from aqquire to   *)
(*                 the drop of the handle;                                 *)
(*   SpecBuilder   ServerAuthBuilder::build / allow / finish.              *)
(***************************************************************************)
EXTENDS Integers, Sequences, FiniteSets, TLC

VARIABLES fs, pc, result, unlinked,
          entry, auth, wbuf, wres, rdata, rpos, rres, rebuf, cpc,
          file, fpos, fop, farg, fres,
          inner, free_slot, bpc

lockVars == <<fs, pc, result, unlinked>>
codecVars == <<entry, auth, wbuf, wres, rdata, rpos, rres, rebuf, cpc>>
fileVars == <<file, fpos, fop, farg, fres>>
builderVars == <<inner, free_slot, bpc>>
vars == <<fs, pc, result, unlinked,
          entry, auth, wbuf, wres, rdata, rpos, rres, rebuf, cpc,
          file, fpos, fop, farg, fres,
          inner, free_slot, bpc>>

(***************************************************************************)
(* Bounds                                                                  *)
(***************************************************************************)
NumProcs == 3

Procs == 1..NumProcs

(***************************************************************************)
(* The state of the parts a specification leaves alone                     *)
(***************************************************************************)
NoEntry == [family |-> "none"]

NoResult == [tag |-> "none"]

InitCodecIdle ==
    /\ entry = NoEntry
    /\ auth = <<>>
    /\ wbuf = <<>>
    /\ wres = "none"
    /\ rdata = <<>>
    /\ rpos = 0
    /\ rres = NoResult
    /\ rebuf = <<>>
    /\ cpc = "off"

InitFileIdle ==
    /\ file = <<>>
    /\ fpos = 0
    /\ fop = "off"
    /\ farg = <<>>
    /\ fres = NoResult

InitBuilderIdle ==
    /\ inner = <<>>
    /\ free_slot = 0
    /\ bpc = "off"

(***************************************************************************)
(* src/lock.rs                                                             *)
(***************************************************************************)

\* Paths handed to Lock::aqquire: one that ends with a file name and the
\* root, for which Path::file_name() is None.
XauthPaths == {"NAME", "/"}

\* Path::file_name(): None (modelled as "") when the path has no final component.
file_name(path) == IF path = "/" THEN "" ELSE path

\* format!("{filename}-c") put in place of the file name.
creat_path(path) == file_name(path) \o "-c"

\* format!("{filename}-l") put in place of the file name.
link_path(path) == file_name(path) \o "-l"

FileNames == {creat_path("NAME"), link_path("NAME")}

\* A directory: each name is absent (0) or bound to an inode, named after the
\* process whose create made it.
EmptyDir == [n \in FileNames |-> 0]

\* OpenOptions::new().write(true).create_new(true).open(name): O_CREAT|O_EXCL.
CreateNew(f, name, p) ==
    IF f[name] # 0
    THEN [err |-> "AlreadyExists", fs |-> f]
    ELSE [err |-> "Ok", fs |-> [f EXCEPT ![name] = p]]

\* std::fs::hard_link(src, dst): link(2).
hard_link(f, src, dst) ==
    IF f[src] = 0
    THEN [err |-> "NotFound", fs |-> f]
    ELSE IF f[dst] # 0
    THEN [err |-> "AlreadyExists", fs |-> f]
    ELSE [err |-> "Ok", fs |-> [f EXCEPT ![dst] = f[src]]]

\* A remove_file that leaves the link artifact behind.
remove_file_KeepLink(f, name) ==
    IF name = link_path("NAME") THEN f ELSE [f EXCEPT ![name] = 0]

\* let _ = remove_file(name): unlink(2), the outcome discarded.
remove_file(f, name) == [f EXCEPT ![name] = 0]

\* The io::Result remove_file(name) gives, which `let _ =` discards.
remove_file_result(f, name) == IF f[name] = 0 THEN "NotFound" ELSE "Ok"

\* An aqquire whose error path runs the lock's drop: both paths are removed
\* when the create fails.
AqquireCreate_DropOnError(p, path) ==
    /\ pc[p] = "idle"
    /\ IF file_name(path) = ""
       THEN /\ result' = [result EXCEPT ![p] = "InvalidFilename"]
            /\ UNCHANGED <<fs, pc>>
       ELSE LET r == CreateNew(fs, creat_path(path), p) IN
            IF r.err # "Ok"
            THEN /\ result' = [result EXCEPT ![p] = r.err]
                 /\ fs' = remove_file(remove_file(fs, creat_path(path)), link_path(path))
                 /\ UNCHANGED pc
            ELSE /\ fs' = r.fs
                 /\ pc' = [pc EXCEPT ![p] = "created"]
                 /\ result' = [result EXCEPT ![p] = "none"]
    /\ UNCHANGED <<unlinked, codecVars, fileVars, builderVars>>

\* Lock::aqquire up to the create (lines 22-38): the file-name check, then
\* the exclusive create of NAME-c; an error returns at the `?`.
AqquireCreate(p, path) ==
    /\ pc[p] = "idle"
    /\ IF file_name(path) = ""
       THEN /\ result' = [result EXCEPT ![p] = "InvalidFilename"]
            /\ UNCHANGED <<fs, pc>>
       ELSE LET r == CreateNew(fs, creat_path(path), p) IN
            IF r.err # "Ok"
            THEN /\ result' = [result EXCEPT ![p] = r.err]
                 /\ UNCHANGED <<fs, pc>>
            ELSE /\ fs' = r.fs
                 /\ pc' = [pc EXCEPT ![p] = "created"]
                 /\ result' = [result EXCEPT ![p] = "none"]
    /\ UNCHANGED <<unlinked, codecVars, fileVars, builderVars>>

\* Lock::aqquire from the hard link on (lines 40-45): an error returns at
\* the `?` with NAME-c left as it is.
AqquireLink(p) ==
    /\ pc[p] = "created"
    /\ LET r == hard_link(fs, creat_path("NAME"), link_path("NAME")) IN
       /\ fs' = r.fs
       /\ result' = [result EXCEPT ![p] = r.err]
       /\ pc' = [pc EXCEPT ![p] = IF r.err = "Ok" THEN "held" ELSE "idle"]
    /\ UNCHANGED <<unlinked, codecVars, fileVars, builderVars>>

\* Drop for Lock, line 51: remove the creation path.
DropRemoveCreat(p) ==
    /\ pc[p] = "held"
    /\ fs' = remove_file(fs, creat_path("NAME"))
    /\ unlinked' = [unlinked EXCEPT
                       ![p] = <<remove_file_result(fs, creat_path("NAME")), "none">>]
    /\ pc' = [pc EXCEPT ![p] = "dropping"]
    /\ UNCHANGED <<result, codecVars, fileVars, builderVars>>

\* Drop for Lock, line 52: remove the link path.
DropRemoveLink(p) ==
    /\ pc[p] = "dropping"
    /\ fs' = remove_file(fs, link_path("NAME"))
    /\ unlinked' = [unlinked EXCEPT
                       ![p][2] = remove_file_result(fs, link_path("NAME"))]
    /\ pc' = [pc EXCEPT ![p] = "idle"]
    /\ UNCHANGED <<result, codecVars, fileVars, builderVars>>

\* Lock::aqquire run to completion, no other process stepping in between.
Aqquire(p, path) ==
    /\ pc[p] = "idle"
    /\ IF file_name(path) = ""
       THEN /\ result' = [result EXCEPT ![p] = "InvalidFilename"]
            /\ UNCHANGED <<fs, pc>>
       ELSE LET r == CreateNew(fs, creat_path(path), p) IN
            IF r.err # "Ok"
            THEN /\ result' = [result EXCEPT ![p] = r.err]
                 /\ UNCHANGED <<fs, pc>>
            ELSE LET l == hard_link(r.fs, creat_path(path), link_path(path)) IN
                 /\ fs' = l.fs
                 /\ result' = [result EXCEPT ![p] = l.err]
                 /\ pc' = [pc EXCEPT ![p] = IF l.err = "Ok" THEN "held" ELSE "idle"]
    /\ UNCHANGED <<unlinked, codecVars, fileVars, builderVars>>

\* A drop that unwraps the first remove_file: it panics when NAME-c is
\* already gone and never reaches the second remove.
Drop_Unwrap(p) ==
    /\ pc[p] = "held"
    /\ IF remove_file_result(fs, creat_path("NAME")) # "Ok"
       THEN /\ pc' = [pc EXCEPT ![p] = "panicked"]
            /\ unlinked' = [unlinked EXCEPT ![p] = <<"NotFound", "none">>]
            /\ UNCHANGED fs
       ELSE /\ fs' = remove_file(remove_file(fs, creat_path("NAME")), link_path("NAME"))
            /\ unlinked' = [unlinked EXCEPT
                               ![p] = <<"Ok", remove_file_result(fs, link_path("NAME"))>>]
            /\ pc' = [pc EXCEPT ![p] = "idle"]
    /\ UNCHANGED <<result, codecVars, fileVars, builderVars>>

\* Drop for Lock run to completion.
Drop(p) ==
    /\ pc[p] = "held"
    /\ fs' = remove_file(remove_file(fs, creat_path("NAME")), link_path("NAME"))
    /\ unlinked' = [unlinked EXCEPT
                       ![p] = <<remove_file_result(fs, creat_path("NAME")),
                                remove_file_result(remove_file(fs, creat_path("NAME")),
                                                   link_path("NAME"))>>]
    /\ pc' = [pc EXCEPT ![p] = "idle"]
    /\ UNCHANGED <<result, codecVars, fileVars, builderVars>>

InitLockVars ==
    /\ fs = EmptyDir
    /\ pc = [p \in Procs |-> "idle"]
    /\ result = [p \in Procs |-> "none"]
    /\ unlinked = [p \in Procs |-> <<"none", "none">>]

InitLock == InitLockVars /\ InitCodecIdle /\ InitFileIdle /\ InitBuilderIdle

NextLock ==
    \E p \in Procs :
        \/ \E path \in XauthPaths : AqquireCreate(p, path)
        \/ AqquireLink(p)
        \/ DropRemoveCreat(p)
        \/ DropRemoveLink(p)

SpecLock == InitLock /\ [][NextLock]_vars

NextSeq ==
    \E p \in Procs :
        \/ \E path \in XauthPaths : Aqquire(p, path)
        \/ Drop(p)

SpecSeq == InitLock /\ [][NextSeq]_vars

\* Another party removes a lock file that is there.
ExternalRemove(name) ==
    /\ fs[name] # 0
    /\ fs' = [fs EXCEPT ![name] = 0]
    /\ UNCHANGED <<pc, result, unlinked, codecVars, fileVars, builderVars>>

NextExt ==
    \/ \E p \in Procs : Aqquire(p, "NAME")
    \/ \E p \in Procs : Drop(p)
    \/ \E name \in FileNames : ExternalRemove(name)

SpecExt == InitLock /\ [][NextExt]_vars

(***************************************************************************)
(* src/encoding.rs                                                         *)
(***************************************************************************)

\* Longest field of the entries drawn in full; longer fields are the
\* chosen lengths of LongLens.
MaxFieldLen == 1

\* Records of at most CutLimit bytes are cut at every length and corrupted
\* at every byte; longer ones are read whole.
CutLimit == 20

\* 2^16, the range of the u16 a length or a family code is written in.
U16Range == 65536

\* Byte values the drawn fields are made of: ASCII '0' and 0xFF, which no
\* UTF-8 text contains.
ByteVals == {48, 255}

\* Field lengths beyond MaxFieldLen: one that needs both length bytes, the
\* largest a u16 holds, and the two just past it.
LongLens == {258, 65535, 65536, 65537}

Min(a, b) == IF a < b THEN a ELSE b

\* u16::from_le_bytes: the two bytes read low byte first.
from_le_bytes(b) == b[2] * 256 + b[1]

\* u16::from_be_bytes
from_be_bytes(b) == b[1] * 256 + b[2]

\* u16::to_be_bytes
to_be_bytes(v) == <<v \div 256, v % 256>>

\* `n as u16` of a usize: the low 16 bits.
as_u16(n) == n % U16Range

\* Read::read_exact on a reader at pos: all n bytes, or UnexpectedEof with
\* the reader left at the end of its data.
read_exact(data, pos, n) ==
    IF pos + n <= Len(data)
    THEN [err |-> "Ok", bytes |-> SubSeq(data, pos + 1, pos + n), pos |-> pos + n]
    ELSE [err |-> "UnexpectedEof", bytes |-> <<>>, pos |-> Len(data)]

\* Read::read: the bytes that are left, up to n of them.
read_exact_Short(data, pos, n) ==
    [err |-> "Ok", bytes |-> SubSeq(data, pos + 1, Min(pos + n, Len(data))),
     pos |-> Min(pos + n, Len(data))]

\* read_len
read_len(data, pos) ==
    LET r == read_exact(data, pos, 2) IN
    IF r.err # "Ok"
    THEN [err |-> r.err, val |-> 0, pos |-> r.pos]
    ELSE [err |-> "Ok", val |-> from_be_bytes(r.bytes), pos |-> r.pos]

\* A read_field that takes the bytes that are left for the field.
read_field_Short(data, pos) ==
    LET l == read_len(data, pos) IN
    IF l.err # "Ok"
    THEN [err |-> l.err, bytes |-> <<>>, pos |-> l.pos]
    ELSE read_exact_Short(data, l.pos, l.val)

\* read_field
read_field(data, pos) ==
    LET l == read_len(data, pos) IN
    IF l.err # "Ok"
    THEN [err |-> l.err, bytes |-> <<>>, pos |-> l.pos]
    ELSE read_exact(data, l.pos, l.val)

\* A writer: the bytes it holds and the position the next write goes to.
\* Write::write_all overwrites from the position on and extends the data.
write_all(w, bytes) ==
    [data |-> SubSeq(w.data, 1, w.pos) \o bytes
                \o SubSeq(w.data, w.pos + Len(bytes) + 1, Len(w.data)),
     pos |-> w.pos + Len(bytes)]

\* write_len
write_len(w, value) == write_all(w, to_be_bytes(value))

\* write_field
write_field(w, bytes) ==
    LET prefix == as_u16(Len(bytes)) IN
    write_all(write_len(w, prefix), bytes)

\* enum Family
FamilyNames == {"Local", "Wild", "Netname", "Krb5Principal", "LocalHost",
                "ProbablyWildNonspec"}

\* A discriminant table with Wild one short of 65535.
Family_as_u16_WildOff(f) ==
    CASE f = "Local" -> 256
      [] f = "Wild" -> 65534
      [] f = "Netname" -> 254
      [] f = "Krb5Principal" -> 253
      [] f = "LocalHost" -> 252
      [] f = "ProbablyWildNonspec" -> 0

\* `family as u16`: the discriminant of #[repr(u16)] enum Family.
Family_as_u16(f) ==
    CASE f = "Local" -> 256
      [] f = "Wild" -> 65535
      [] f = "Netname" -> 254
      [] f = "Krb5Principal" -> 253
      [] f = "LocalHost" -> 252
      [] f = "ProbablyWildNonspec" -> 0

\* Family::from_repr (strum FromRepr): the variant with that discriminant,
\* None (modelled as "") when there is none.
Family_from_repr(c) ==
    IF \E f \in FamilyNames : Family_as_u16(f) = c
    THEN CHOOSE f \in FamilyNames : Family_as_u16(f) = c
    ELSE ""

IsCont(b) == b >= 128 /\ b <= 191

\* Bytes a UTF-8 sequence led by b takes; 0 when b leads none.
Utf8Width(b) ==
    IF b < 128 THEN 1
    ELSE IF b >= 194 /\ b <= 223 THEN 2
    ELSE IF b >= 224 /\ b <= 239 THEN 3
    ELSE IF b >= 240 /\ b <= 244 THEN 4
    ELSE 0

\* The range the byte after lead byte b must lie in.
Utf8Second(b, c) ==
    IF b = 224 THEN c >= 160 /\ c <= 191
    ELSE IF b = 237 THEN c >= 128 /\ c <= 159
    ELSE IF b = 240 THEN c >= 144 /\ c <= 191
    ELSE IF b = 244 THEN c >= 128 /\ c <= 143
    ELSE IsCont(c)

\* String::try_from(Vec<u8>) succeeds: the bytes are UTF-8.
IsUtf8(b) ==
    /\ Len(b) > 0 => ~IsCont(b[1])
    /\ \A i \in 1..Len(b) :
          IsCont(b[i]) \/
             LET w == Utf8Width(b[i]) IN
             /\ w > 0
             /\ i + w - 1 <= Len(b)
             /\ w > 1 => Utf8Second(b[i], b[i + 1])
             /\ \A j \in (i + 2)..(i + w - 1) : IsCont(b[j])
             /\ i + w <= Len(b) => ~IsCont(b[i + w])

\* err_invalid_field
err_invalid_field(field) == "Invalid field: " \o field

ReadErr(e, pos) == [tag |-> "Err", err |-> e, pos |-> pos]

\* An Entry::read_from that returns the error of the family read (`read_len(reader)?`)
\* instead of Ok(None).
Entry_read_from_Propagate(data, pos) ==
    LET fam == read_len(data, pos) IN
    IF fam.err # "Ok" THEN ReadErr(fam.err, fam.pos)
    ELSE LET family == Family_from_repr(fam.val) IN
    IF family = "" THEN ReadErr(err_invalid_field("family"), fam.pos)
    ELSE LET address == read_field(data, fam.pos) IN
    IF address.err # "Ok" THEN ReadErr(address.err, address.pos)
    ELSE LET display_number == read_field(data, address.pos) IN
    IF display_number.err # "Ok" THEN ReadErr(display_number.err, display_number.pos)
    ELSE IF ~IsUtf8(display_number.bytes)
    THEN ReadErr(err_invalid_field("display_number"), display_number.pos)
    ELSE LET auth_name == read_field(data, display_number.pos) IN
    IF auth_name.err # "Ok" THEN ReadErr(auth_name.err, auth_name.pos)
    ELSE IF ~IsUtf8(auth_name.bytes)
    THEN ReadErr(err_invalid_field("auth_name"), auth_name.pos)
    ELSE LET auth_data == read_field(data, auth_name.pos) IN
    IF auth_data.err # "Ok" THEN ReadErr(auth_data.err, auth_data.pos)
    ELSE [tag |-> "Some",
          entry |-> [family |-> family,
                     address |-> address.bytes,
                     display_number |-> display_number.bytes,
                     auth_name |-> auth_name.bytes,
                     auth_data |-> auth_data.bytes],
          pos |-> auth_data.pos]

\* Entry::read_from on a reader at pos: Ok(Some(entry)), Ok(None) or Err,
\* and where the reader is left.
Entry_read_from(data, pos) ==
    LET fam == read_len(data, pos) IN
    IF fam.err # "Ok" THEN [tag |-> "None", pos |-> fam.pos]
    ELSE LET family == Family_from_repr(fam.val) IN
    IF family = "" THEN ReadErr(err_invalid_field("family"), fam.pos)
    ELSE LET address == read_field(data, fam.pos) IN
    IF address.err # "Ok" THEN ReadErr(address.err, address.pos)
    ELSE LET display_number == read_field(data, address.pos) IN
    IF display_number.err # "Ok" THEN ReadErr(display_number.err, display_number.pos)
    ELSE IF ~IsUtf8(display_number.bytes)
    THEN ReadErr(err_invalid_field("display_number"), display_number.pos)
    ELSE LET auth_name == read_field(data, display_number.pos) IN
    IF auth_name.err # "Ok" THEN ReadErr(auth_name.err, auth_name.pos)
    ELSE IF ~IsUtf8(auth_name.bytes)
    THEN ReadErr(err_invalid_field("auth_name"), auth_name.pos)
    ELSE LET auth_data == read_field(data, auth_name.pos) IN
    IF auth_data.err # "Ok" THEN ReadErr(auth_data.err, auth_data.pos)
    ELSE [tag |-> "Some",
          entry |-> [family |-> family,
                     address |-> address.bytes,
                     display_number |-> display_number.bytes,
                     auth_name |-> auth_name.bytes,
                     auth_data |-> auth_data.bytes],
          pos |-> auth_data.pos]

\* Entry::write_to
Entry_write_to(e, w) ==
    LET w1 == write_len(w, Family_as_u16(e.family))
        w2 == write_field(w1, e.address)
        w3 == write_field(w2, e.display_number)
        w4 == write_field(w3, e.auth_name)
    IN write_field(w4, e.auth_data)

\* Vec::new() as a writer.
EmptyVec == [data |-> <<>>, pos |-> 0]

\* The byte sequences of length at most n over ByteVals.
RECURSIVE SeqsUpTo(_)
SeqsUpTo(n) ==
    IF n = 0 THEN {<<>>}
    ELSE LET S == SeqsUpTo(n - 1) IN
         S \cup {Append(s, b) : s \in {t \in S : Len(t) = n - 1}, b \in ByteVals}

Fill(n) == [i \in 1..n |-> 48]

\* Vec<u8> values of a field.
FieldBytes == SeqsUpTo(MaxFieldLen)

\* String values of a field: a String holds UTF-8.
FieldTexts == {s \in SeqsUpTo(MaxFieldLen) : IsUtf8(s)}

\* The entries encoded: every combination of short fields, and entries with
\* one long field.
Entries ==
    [family : FamilyNames, address : FieldBytes, display_number : FieldTexts,
     auth_name : FieldTexts, auth_data : FieldBytes]
    \cup {[family |-> "Local", address |-> Fill(n), display_number |-> <<48>>,
           auth_name |-> <<>>, auth_data |-> <<255>>] : n \in LongLens}
    \cup {[family |-> "Wild", address |-> <<255>>, display_number |-> Fill(n),
           auth_name |-> <<48>>, auth_data |-> <<>>] : n \in LongLens}
    \cup {[family |-> "Local", address |-> <<>>, display_number |-> <<48>>,
           auth_name |-> Fill(n), auth_data |-> <<255>>] : n \in LongLens}
    \cup {[family |-> "Wild", address |-> <<48>>, display_number |-> <<>>,
           auth_name |-> <<48>>, auth_data |-> Fill(n)] : n \in LongLens}

\* Family codes put in front of a record's fields.
TestCodes == {0, 1, 6, 252, 253, 254, 255, 256, 257, 999, 65534, 65535}

InitCodec ==
    /\ InitLockVars
    /\ InitFileIdle
    /\ InitBuilderIdle
    /\ entry \in Entries
    /\ auth = <<>>
    /\ wbuf = <<>>
    /\ wres = "none"
    /\ rdata = <<>>
    /\ rpos = 0
    /\ rres = NoResult
    /\ rebuf = <<>>
    /\ cpc = "start"

\* entry.write_to(&mut Vec::new())
EntryWriteTo ==
    /\ cpc = "start"
    /\ wbuf' = Entry_write_to(entry, EmptyVec).data
    /\ wres' = "Ok"
    /\ cpc' = "written"
    /\ UNCHANGED <<entry, auth, rdata, rpos, rres, rebuf, lockVars, fileVars, builderVars>>

\* A reader is opened over the first n bytes of the written record.
LoadStream(n) ==
    /\ cpc = "written"
    /\ n <= Len(wbuf)
    /\ n = Len(wbuf) \/ Len(wbuf) <= CutLimit
    /\ rdata' = SubSeq(wbuf, 1, n)
    /\ rpos' = 0
    /\ cpc' = "loaded"
    /\ UNCHANGED <<entry, auth, wbuf, wres, rres, rebuf, lockVars, fileVars, builderVars>>

\* A reader is opened over the written record with family code c in front.
LoadWithFamily(c) ==
    /\ cpc = "written"
    /\ rdata' = to_be_bytes(c) \o SubSeq(wbuf, 3, Len(wbuf))
    /\ rpos' = 0
    /\ cpc' = "loaded"
    /\ UNCHANGED <<entry, auth, wbuf, wres, rres, rebuf, lockVars, fileVars, builderVars>>

\* A reader is opened over the written record with byte i set to 0xFF.
LoadCorrupted(i) ==
    /\ cpc = "written"
    /\ i <= Len(wbuf)
    /\ Len(wbuf) <= CutLimit
    /\ wbuf[i] # 255
    /\ rdata' = [wbuf EXCEPT ![i] = 255]
    /\ rpos' = 0
    /\ cpc' = "loaded"
    /\ UNCHANGED <<entry, auth, wbuf, wres, rres, rebuf, lockVars, fileVars, builderVars>>

\* Entry::read_from(&mut reader)
EntryReadFrom ==
    /\ cpc = "loaded"
    /\ LET r == Entry_read_from(rdata, rpos) IN
       /\ rres' = IF r.tag = "Some" THEN [tag |-> "Some", entry |-> r.entry]
                  ELSE IF r.tag = "Err" THEN [tag |-> "Err", err |-> r.err]
                  ELSE [tag |-> "None"]
       /\ rpos' = r.pos
    /\ cpc' = "read"
    /\ UNCHANGED <<entry, auth, wbuf, wres, rdata, rebuf, lockVars, fileVars, builderVars>>

\* The entry read is written again: entry.write_to(&mut Vec::new())
ReWrite ==
    /\ cpc = "read"
    /\ rres.tag = "Some"
    /\ rebuf' = Entry_write_to(rres.entry, EmptyVec).data
    /\ cpc' = "rewritten"
    /\ UNCHANGED <<entry, auth, wbuf, wres, rdata, rpos, rres, lockVars, fileVars, builderVars>>

NextCodec ==
    \/ EntryWriteTo
    \/ \E n \in {Len(wbuf)} \cup 0..CutLimit : LoadStream(n)
    \/ \E c \in TestCodes : LoadWithFamily(c)
    \/ \E i \in 1..CutLimit : LoadCorrupted(i)
    \/ EntryReadFrom
    \/ ReWrite

SpecCodec == InitCodec /\ [][NextCodec]_vars

(***************************************************************************)
(* src/lib.rs: XAuthority and XAuthorityFile                               *)
(***************************************************************************)

\* Most entries of an authority handed to set or append, or in the file at first.
MaxEntries == 2

\* Appends stop once the file would grow past this many bytes.
MaxFileLen == 30

\* An XAuthority::write_to that writes the entries last to first.
RECURSIVE XAuthority_write_to_Reversed(_, _)
XAuthority_write_to_Reversed(entries, w) ==
    IF entries = <<>> THEN w
    ELSE Entry_write_to(Head(entries), XAuthority_write_to_Reversed(Tail(entries), w))

\* XAuthority::write_to: each entry in order.
RECURSIVE XAuthority_write_to(_, _)
XAuthority_write_to(entries, w) ==
    IF entries = <<>> THEN w
    ELSE XAuthority_write_to(Tail(entries), Entry_write_to(Head(entries), w))

\* A read loop that stops at an Err as it does at None and returns what it has.
RECURSIVE ReadLoop_Partial(_, _, _)
ReadLoop_Partial(data, pos, buf) ==
    LET r == Entry_read_from(data, pos) IN
    IF r.tag = "Err" THEN [tag |-> "Ok", entries |-> buf, pos |-> r.pos]
    ELSE IF r.tag = "None" THEN [tag |-> "Ok", entries |-> buf, pos |-> r.pos]
    ELSE ReadLoop_Partial(data, r.pos, Append(buf, r.entry))

\* XAuthority::read_from, entered with buf read so far: entries are pushed
\* until Entry::read_from gives None; an Err returns at the `?`.
RECURSIVE ReadLoop(_, _, _)
ReadLoop(data, pos, buf) ==
    LET r == Entry_read_from(data, pos) IN
    IF r.tag = "Err" THEN [tag |-> "Err", err |-> r.err, pos |-> r.pos]
    ELSE IF r.tag = "None" THEN [tag |-> "Ok", entries |-> buf, pos |-> r.pos]
    ELSE ReadLoop(data, r.pos, Append(buf, r.entry))

\* XAuthority::read_from
XAuthority_read_from(data, pos) == ReadLoop(data, pos, <<>>)

\* The entries authorities are made of, of two encoded sizes.
FileEntries ==
    { [family |-> "Wild", address |-> <<>>, display_number |-> <<>>,
       auth_name |-> <<>>, auth_data |-> <<>>],
      [family |-> "Local", address |-> <<255>>, display_number |-> <<48>>,
       auth_name |-> <<48>>, auth_data |-> <<255, 48>>] }

RECURSIVE AuthoritiesUpTo(_)
AuthoritiesUpTo(n) ==
    IF n = 0 THEN {<<>>}
    ELSE LET S == AuthoritiesUpTo(n - 1) IN
         S \cup {Append(a, e) : a \in {t \in S : Len(t) = n - 1}, e \in FileEntries}

\* XAuthority values: Vec<XAuthorityEntry> of at most MaxEntries entries.
Authorities == AuthoritiesUpTo(MaxEntries)

\* The bytes authority a is written as.
Encoded(a) == XAuthority_write_to(a, EmptyVec).data

\* XAuthorityFile over a file that holds an authority written earlier.
InitFile ==
    /\ InitLockVars
    /\ InitCodecIdle
    /\ InitBuilderIdle
    /\ file \in {Encoded(a) : a \in Authorities}
    /\ fpos = 0
    /\ fop = "new"
    /\ farg = <<>>
    /\ fres = NoResult

\* XAuthorityFile::get
Get ==
    /\ fop # "off"
    /\ LET r == XAuthority_read_from(file, 0) IN
       /\ fres' = IF r.tag = "Ok" THEN [tag |-> "Ok", entries |-> r.entries]
                  ELSE [tag |-> "Err", err |-> r.err]
       /\ fpos' = r.pos
    /\ fop' = IF fop = "set" THEN "set_get"
              ELSE IF fop = "append" THEN "append_get"
              ELSE "get"
    /\ UNCHANGED <<file, farg, lockVars, codecVars, builderVars>>

\* XAuthorityFile::set(authority)
Set(authority) ==
    /\ fop # "off"
    /\ LET w == XAuthority_write_to(authority, [data |-> file, pos |-> 0]) IN
       /\ file' = w.data
       /\ fpos' = w.pos
    /\ fres' = [tag |-> "Ok"]
    /\ farg' = authority
    /\ fop' = "set"
    /\ UNCHANGED <<lockVars, codecVars, builderVars>>

\* An append that writes where the file position is, without the seek to the end.
FileAppend_NoSeek(authority) ==
    /\ fop # "off"
    /\ Len(file) + Len(Encoded(authority)) <= MaxFileLen
    /\ LET w == XAuthority_write_to(authority, [data |-> file, pos |-> fpos]) IN
       /\ file' = w.data
       /\ fpos' = w.pos
    /\ fres' = [tag |-> "Ok"]
    /\ farg' = authority
    /\ fop' = "append"
    /\ UNCHANGED <<lockVars, codecVars, builderVars>>

\* XAuthorityFile::append(authority)
FileAppend(authority) ==
    /\ fop # "off"
    /\ Len(file) + Len(Encoded(authority)) <= MaxFileLen
    /\ LET w == XAuthority_write_to(authority, [data |-> file, pos |-> Len(file)]) IN
       /\ file' = w.data
       /\ fpos' = w.pos
    /\ fres' = [tag |-> "Ok"]
    /\ farg' = authority
    /\ fop' = "append"
    /\ UNCHANGED <<lockVars, codecVars, builderVars>>

NextFile ==
    \/ Get
    \/ \E a \in Authorities : Set(a)
    \/ \E a \in Authorities : FileAppend(a)

SpecFile == InitFile /\ [][NextFile]_vars

(***************************************************************************)
(* src/encoding.rs: XAuthority, the container                              *)
(***************************************************************************)

\* Most entries add_entry puts in one authority.
MaxAuthLen == 3

InitContainer ==
    /\ InitLockVars
    /\ InitFileIdle
    /\ InitBuilderIdle
    /\ entry = NoEntry
    /\ auth = <<>>
    /\ wbuf = <<>>
    /\ wres = "none"
    /\ rdata = <<>>
    /\ rpos = 0
    /\ rres = NoResult
    /\ rebuf = <<>>
    /\ cpc = "start"

\* XAuthority::add_entry
AddEntry(e) ==
    /\ cpc = "start"
    /\ Len(auth) < MaxAuthLen
    /\ auth' = Append(auth, e)
    /\ UNCHANGED <<entry, wbuf, wres, rdata, rpos, rres, rebuf, cpc,
                   lockVars, fileVars, builderVars>>

\* authority.write_to(&mut Vec::new())
AuthorityWriteTo ==
    /\ cpc = "start"
    /\ wbuf' = XAuthority_write_to(auth, EmptyVec).data
    /\ wres' = "Ok"
    /\ cpc' = "written"
    /\ UNCHANGED <<entry, auth, rdata, rpos, rres, rebuf, lockVars, fileVars, builderVars>>

\* A reader is opened over the first n bytes written.
LoadPrefix(n) ==
    /\ cpc = "written"
    /\ n <= Len(wbuf)
    /\ rdata' = SubSeq(wbuf, 1, n)
    /\ rpos' = 0
    /\ cpc' = "loaded"
    /\ UNCHANGED <<entry, auth, wbuf, wres, rres, rebuf, lockVars, fileVars, builderVars>>

\* XAuthority::read_from(&mut reader)
AuthorityReadFrom ==
    /\ cpc = "loaded"
    /\ LET r == XAuthority_read_from(rdata, rpos) IN
       /\ rres' = IF r.tag = "Ok" THEN [tag |-> "Ok", entries |-> r.entries]
                  ELSE [tag |-> "Err", err |-> r.err]
       /\ rpos' = r.pos
    /\ cpc' = "read_all"
    /\ UNCHANGED <<entry, auth, wbuf, wres, rdata, rebuf, lockVars, fileVars, builderVars>>

NextContainer ==
    \/ \E e \in FileEntries : AddEntry(e)
    \/ AuthorityWriteTo
    \/ \E n \in 0..(MaxAuthLen * CutLimit) : LoadPrefix(n)
    \/ EntryReadFrom
    \/ AuthorityReadFrom

SpecContainer == InitContainer /\ [][NextContainer]_vars

(***************************************************************************)
(* src/lib.rs: an XAuthorityFile that owns its Lock                        *)
(***************************************************************************)

\* The authorities the handle is given: none or one entry.
HandleAuthorities ==
    {<<>>} \cup {<<e>> : e \in FileEntries}

\* The file exists with an authority written earlier; no lock is held and
\* no handle is open.
InitHandle ==
    /\ InitLockVars
    /\ InitCodecIdle
    /\ InitBuilderIdle
    /\ file \in {Encoded(a) : a \in HandleAuthorities}
    /\ fpos = 0
    /\ fop = "off"
    /\ farg = <<>>
    /\ fres = NoResult

\* An XAuthorityFile::new that does not keep the lock it is given: the lock
\* is dropped when new returns.
NewHandle_LockNotStored(p) ==
    /\ pc[p] = "held"
    /\ fop = "off"
    /\ fop' = "new"
    /\ fpos' = 0
    /\ farg' = <<>>
    /\ fres' = NoResult
    /\ fs' = remove_file(remove_file(fs, creat_path("NAME")), link_path("NAME"))
    /\ UNCHANGED <<file, pc, result, unlinked, codecVars, builderVars>>

\* XAuthorityFile::new(file, lock) by the process whose aqquire returned the
\* lock: the handle takes the open file and the lock.
NewHandle(p) ==
    /\ pc[p] = "held"
    /\ fop = "off"
    /\ fop' = "new"
    /\ fpos' = 0
    /\ farg' = <<>>
    /\ fres' = NoResult
    /\ UNCHANGED <<file, lockVars, codecVars, builderVars>>

\* XAuthorityFile::set(authority) whose first write to the file fails: the
\* error returns through the `?` of write_to, after the rewind.
SetFails(authority) ==
    /\ fop # "off"
    /\ fpos' = 0
    /\ fres' = [tag |-> "Err", err |-> "WriteFailed"]
    /\ farg' = authority
    /\ fop' = "set_err"
    /\ UNCHANGED <<file, lockVars, codecVars, builderVars>>

\* XAuthorityFile::append(authority) whose first write to the file fails,
\* after the seek to the end.
AppendFails(authority) ==
    /\ fop # "off"
    /\ fpos' = Len(file)
    /\ fres' = [tag |-> "Err", err |-> "WriteFailed"]
    /\ farg' = authority
    /\ fop' = "append_err"
    /\ UNCHANGED <<file, lockVars, codecVars, builderVars>>

\* The handle goes out of scope: its fields are dropped, the file is closed
\* and Drop for Lock runs on _lock.
DiscardHandle(p) ==
    /\ fop # "off"
    /\ pc[p] = "held"
    /\ fs' = remove_file(remove_file(fs, creat_path("NAME")), link_path("NAME"))
    /\ unlinked' = [unlinked EXCEPT
                       ![p] = <<remove_file_result(fs, creat_path("NAME")),
                                remove_file_result(remove_file(fs, creat_path("NAME")),
                                                   link_path("NAME"))>>]
    /\ pc' = [pc EXCEPT ![p] = "idle"]
    /\ fop' = "off"
    /\ UNCHANGED <<result, file, fpos, farg, fres, codecVars, builderVars>>

NextHandle ==
    \/ \E p \in Procs : Aqquire(p, "NAME")
    \/ \E p \in Procs : NewHandle(p)
    \/ Get
    \/ \E a \in HandleAuthorities : Set(a)
    \/ \E a \in HandleAuthorities : FileAppend(a)
    \/ \E a \in HandleAuthorities : SetFails(a)
    \/ \E a \in HandleAuthorities : AppendFails(a)
    \/ \E p \in Procs : DiscardHandle(p)

SpecHandle == InitHandle /\ [][NextHandle]_vars

(***************************************************************************)
(* src/lib.rs: ServerAuthBuilder                                           *)
(***************************************************************************)

\* Calls to allow that the model follows from a starting state.
MaxAllow == 4

\* Cookie::BYTES_LEN.
BYTES_LEN == 16

\* Cookie::AUTH_NAME, the bytes of "MIT-MAGIC-COOKIE-1".
AUTH_NAME ==
    <<77, 73, 84, 45, 77, 65, 71, 73, 67, 45, 67, 79, 79, 75, 73, 69, 45, 49>>

\* u16::to_string: the decimal digits of n, as bytes.
RECURSIVE to_string(_)
to_string(n) ==
    IF n < 10 THEN <<48 + n>>
    ELSE Append(to_string(n \div 10), 48 + (n % 10))

\* From<Target> for String.
Target_into_String(target) ==
    IF target.kind = "Server" THEN to_string(target.slot) ELSE target.display

\* From<Scope> for (Family, Hostname).
Scope_into(scope) ==
    IF scope.kind = "Local" THEN <<"Local", scope.hostname>>
    ELSE <<"Wild", <<127, 0, 0, 2>>>>

\* Cookie::raw_data.
Cookie_raw_data(cookie) == <<AUTH_NAME, cookie>>

\* XAuthorityEntry::new(cookie, scope, target).
XAuthorityEntry_new(cookie, scope, target) ==
    [family         |-> Scope_into(scope)[1],
     address        |-> Scope_into(scope)[2],
     display_number |-> Target_into_String(target),
     auth_name      |-> Cookie_raw_data(cookie)[1],
     auth_data      |-> Cookie_raw_data(cookie)[2]]

\* Cookie::new(random_bytes): the cookies the callers hold.
Cookies == {[i \in 1..BYTES_LEN |-> b] : b \in ByteVals}

ScopeAny == [kind |-> "Any", hostname |-> <<>>]

Scopes == {ScopeAny} \cup {[kind |-> "Local", hostname |-> h] : h \in {<<>>, <<48>>}}

\* The number of allow calls after which the second starting state is taken:
\* one call before free_slot reaches u16::MAX.
NearLimit == U16Range - 2

\* ServerAuthBuilder::build(), or the builder that build() followed by
\* NearLimit calls of allow(cookie, Scope::Any) leaves.
InitBuilder ==
    /\ InitLockVars
    /\ InitCodecIdle
    /\ InitFileIdle
    /\ bpc = "building"
    /\ \/ /\ inner = <<>>
          /\ free_slot = 0
       \/ /\ inner = [i \in 1..NearLimit |->
                        XAuthorityEntry_new([j \in 1..BYTES_LEN |-> 48], ScopeAny,
                                            [kind |-> "Server", slot |-> i - 1])]
          /\ free_slot = NearLimit

\* allow without `self.free_slot += 1`.
Allow_NoIncrement(cookie, scope) ==
    /\ bpc = "building"
    /\ \/ Len(inner) < MaxAllow
       \/ /\ Len(inner) >= NearLimit
          /\ Len(inner) < NearLimit + MaxAllow
          /\ scope = ScopeAny
          /\ cookie = [j \in 1..BYTES_LEN |-> 48]
    /\ inner' = Append(inner, XAuthorityEntry_new(cookie, scope,
                                  [kind |-> "Server", slot |-> free_slot]))
    /\ UNCHANGED <<free_slot, bpc>>
    /\ UNCHANGED <<lockVars, codecVars, fileVars>>

\* ServerAuthBuilder::allow(cookie, scope): add_entry of the entry for the
\* free slot, then free_slot += 1 on a u16.  When the sum does not fit, the
\* build decides: without overflow checks it wraps, with them the call
\* panics after the entry was added.
Allow(cookie, scope) ==
    /\ bpc = "building"
    /\ \/ Len(inner) < MaxAllow
       \/ /\ Len(inner) >= NearLimit
          /\ Len(inner) < NearLimit + MaxAllow
          /\ scope = ScopeAny
          /\ cookie = [j \in 1..BYTES_LEN |-> 48]
    /\ inner' = Append(inner, XAuthorityEntry_new(cookie, scope,
                                  [kind |-> "Server", slot |-> free_slot]))
    /\ \/ /\ free_slot + 1 < U16Range
          /\ free_slot' = free_slot + 1
          /\ bpc' = bpc
       \/ /\ free_slot + 1 >= U16Range
          /\ free_slot' = (free_slot + 1) % U16Range
          /\ bpc' = bpc
       \/ /\ free_slot + 1 >= U16Range
          /\ free_slot' = free_slot
          /\ bpc' = "panicked"
    /\ UNCHANGED <<lockVars, codecVars, fileVars>>

\* ServerAuthBuilder::finish(): the builder is consumed, inner is returned.
Finish ==
    /\ bpc = "building"
    /\ bpc' = "finished"
    /\ UNCHANGED <<inner, free_slot, lockVars, codecVars, fileVars>>

NextBuilder ==
    \/ \E c \in Cookies, sc \in Scopes : Allow(c, sc)
    \/ Finish

SpecBuilder == InitBuilder /\ [][NextBuilder]_vars

(***************************************************************************)
(* Claims                                                                  *)
(***************************************************************************)

Holders == {p \in Procs : pc[p] = "held"}

\* C1 (SpecLock): with the filesystem steps of aqquire and drop interleaved
\* in any order, at most one process at a time has had aqquire return Ok and
\* has not yet started its drop.
C1_MutualExclusion == Cardinality(Holders) <= 1

\* One process holds the lock, its own NAME-c in place, while another has
\* had its aqquire fail on the collision.
C1_Witness ==
    \E p, q \in Procs :
        /\ p # q
        /\ pc[p] = "held"
        /\ fs[creat_path("NAME")] = p
        /\ fs[link_path("NAME")] = p
        /\ result[q] = "AlreadyExists"

\* C3 (SpecSeq): with calls running one after the other, an aqquire on NAME
\* made while a lock is held fails with AlreadyExists, an error kind other
\* than the InvalidFilename a path without a file name gets, and an aqquire
\* made when no lock is held (the holder has dropped it) returns Ok.
C3_SequentialAcquisition ==
    [][\A p \in Procs :
          /\ Aqquire(p, "NAME") =>
                IF Holders # {}
                THEN result'[p] = "AlreadyExists" /\ pc'[p] = "idle"
                ELSE result'[p] = "Ok" /\ pc'[p] = "held"
          /\ Aqquire(p, "/") => result'[p] = "InvalidFilename" /\ pc'[p] = "idle"]_vars

\* A lock was held and dropped, an attempt made meanwhile failed on the
\* collision, and the next aqquire after the drop holds the lock.
C3_Witness ==
    \E p, q, r \in Procs :
        /\ p # q /\ q # r /\ p # r
        /\ pc[r] = "idle" /\ result[r] = "Ok"
        /\ pc[q] = "idle" /\ result[q] = "AlreadyExists"
        /\ pc[p] = "held" /\ result[p] = "Ok"

\* C4 (SpecLock): an aqquire that created NAME-c and then failed has removed
\* it by the time it returns: no process that is back from a failed aqquire
\* has a creation artifact of its own left in the directory.
C4_FailedAcquireCleansUp ==
    \A p \in Procs :
        (pc[p] = "idle" /\ result[p] \notin {"none", "Ok"})
            => fs[creat_path("NAME")] # p

\* Every variable-length field of e fits the u16 length prefix.
WithinLimits(e) ==
    /\ Len(e.address) < U16Range
    /\ Len(e.display_number) < U16Range
    /\ Len(e.auth_name) < U16Range
    /\ Len(e.auth_data) < U16Range

\* C5 (SpecCodec): for an entry whose fields are each at most 65,535 bytes,
\* reading the bytes write_to produced gives Some(entry) equal to the
\* original in all five fields and leaves the reader at the end of the bytes.
C5_RoundTrip ==
    (cpc \in {"read", "rewritten"} /\ rdata = wbuf /\ WithinLimits(entry))
        => /\ rres = [tag |-> "Some", entry |-> entry]
           /\ rpos = Len(wbuf)

\* An entry with a field of exactly 65,535 bytes has been written and read back.
C5_Witness ==
    /\ cpc = "read"
    /\ rdata = wbuf
    /\ Len(entry.auth_name) = 65535
    /\ rres.tag = "Some"

\* The byte strings that are a 2-byte big-endian length equal to the byte
\* count of b, followed by b.
Prefixed(b) ==
    {<<hi, lo>> \o b : hi \in {Len(b) \div 256} \cap 0..255, lo \in {Len(b) % 256}}

\* C6 (SpecCodec): what write_to wrote is the family code as 2 bytes
\* big-endian, then address, display_number, auth_name and auth_data, each as
\* a 2-byte big-endian length equal to the field's byte count followed by the
\* field's bytes, and nothing else.
C6_WireLayout ==
    wres = "Ok" =>
        \E a \in Prefixed(entry.address), d \in Prefixed(entry.display_number),
           n \in Prefixed(entry.auth_name), x \in Prefixed(entry.auth_data) :
            wbuf = <<Family_as_u16(entry.family) \div 256,
                     Family_as_u16(entry.family) % 256>> \o a \o d \o n \o x

\* C7 (SpecCodec): writing an entry with a field longer than 65,535 bytes
\* fails; it does not return Ok with the length prefix wrapped.
C7_OversizedRejected ==
    (cpc # "start" /\ ~WithinLimits(entry)) => wres # "Ok"

\* C8 (SpecCodec): read_from gives None only when no byte was left to read
\* where the family code starts.
C8_EndOnlyAtBoundary ==
    (cpc = "read" /\ rres.tag = "None") => Len(rdata) = 0

\* The reader holds a family code followed by the fields of the written
\* entry, all within the length limit: a well-formed record.
WellFormedStream ==
    /\ cpc \in {"read", "rewritten"}
    /\ WithinLimits(entry)
    /\ Len(rdata) = Len(wbuf)
    /\ SubSeq(rdata, 3, Len(rdata)) = SubSeq(wbuf, 3, Len(wbuf))

StreamCode == rdata[1] * 256 + rdata[2]

\* C9 as stated (SpecCodec): a well-formed record with any 16-bit family code
\* is read as Some(entry), and writing that entry again writes the same code.
C9_FamilyTotal ==
    WellFormedStream =>
        /\ rres.tag = "Some"
        /\ cpc = "rewritten" => SubSeq(rebuf, 1, 2) = SubSeq(rdata, 1, 2)

\* C9 amended (SpecCodec): a well-formed record whose family code is one of
\* 0, 252, 253, 254, 256, 65535 is read as Some(entry), 256 as Local and
\* 65535 as Wild, and writing that entry again writes the same bytes; with
\* any other code read_from returns the error "Invalid field: family".
C9_FamilyRecognized ==
    WellFormedStream =>
        IF StreamCode \in {0, 252, 253, 254, 256, 65535}
        THEN /\ rres.tag = "Some"
             /\ StreamCode = 256 => rres.entry.family = "Local"
             /\ StreamCode = 65535 => rres.entry.family = "Wild"
             /\ cpc = "rewritten" => rebuf = rdata
        ELSE rres = [tag |-> "Err", err |-> "Invalid field: family"]

\* A record written with another family was given code 65535, read as Wild
\* and written again with 65535 in front.
C9_Witness ==
    /\ cpc = "rewritten"
    /\ entry.family # "Wild"
    /\ SubSeq(rdata, 1, 2) = <<255, 255>>
    /\ rres.entry.family = "Wild"
    /\ SubSeq(rebuf, 1, 2) = <<255, 255>>

\* The reader holds the written record cut short after the family code.
TruncatedStream ==
    /\ cpc = "read"
    /\ WithinLimits(entry)
    /\ Len(rdata) >= 2
    /\ Len(rdata) < Len(wbuf)
    /\ rdata = SubSeq(wbuf, 1, Len(rdata))

\* C10 (SpecCodec): a record cut anywhere after its family code, inside a
\* length prefix or inside the bytes of address, display_number, auth_name
\* or auth_data, is read as an error, not as an entry and not as None.
C10_TruncationRejected == TruncatedStream => rres.tag = "Err"

\* A record was cut one byte before its end, inside auth_data, and read.
C10_Witness ==
    /\ TruncatedStream
    /\ Len(entry.auth_data) >= 1
    /\ Len(rdata) = Len(wbuf) - 1
    /\ rres = [tag |-> "Err", err |-> "UnexpectedEof"]

\* C2 (SpecFile): after set(authority) the file is as long as the encoded
\* authority, and a get that follows returns the entries that were set.
C2_SetReplacesContent ==
    /\ fop = "set" => Len(file) = Len(Encoded(farg))
    /\ fop = "set_get" => fres = [tag |-> "Ok", entries |-> farg]

\* C11 (SpecContainer): over a reader with no bytes, Entry::read_from
\* returns Ok(None), not an error, and XAuthority::read_from returns an
\* authority with no entries.
C11_EmptyStream ==
    /\ (cpc = "read" /\ rdata = <<>>) => rres = [tag |-> "None"]
    /\ (cpc = "read_all" /\ rdata = <<>>) => rres = [tag |-> "Ok", entries |-> <<>>]

\* An authority with entries was written, and the reader opened over none
\* of its bytes was read to the end by XAuthority::read_from.
C11_Witness ==
    /\ cpc = "read_all"
    /\ rdata = <<>>
    /\ Len(wbuf) > 0
    /\ rres.tag = "Ok"
    /\ rpos = 0

\* C14 (SpecContainer): reading all the bytes write_to produced for an
\* authority built by add_entry, duplicates included, returns the same
\* entries, as many and in the same order.
C14_ContainerRoundTrip ==
    (cpc = "read_all" /\ rdata = wbuf) => rres = [tag |-> "Ok", entries |-> auth]

\* An authority of three entries, not all the same, was written and read back.
C14_Witness ==
    /\ cpc = "read_all"
    /\ rdata = wbuf
    /\ Len(auth) = 3
    /\ auth[1] # auth[2]
    /\ auth[2] = auth[3]
    /\ rres.tag = "Ok"

\* The reader holds k whole records of the authority and then the next
\* record cut short after its family code.
CutInRecord(k) ==
    /\ k < Len(auth)
    /\ rdata = SubSeq(wbuf, 1, Len(rdata))
    /\ Len(rdata) >= Len(Encoded(SubSeq(auth, 1, k))) + 2
    /\ Len(rdata) < Len(Encoded(SubSeq(auth, 1, k + 1)))

\* C15 (SpecContainer): when a record of the stream fails to decode,
\* XAuthority::read_from returns that error and no authority: the entries
\* read before the failing record are not returned.
C15_AllOrNothing ==
    (cpc = "read_all" /\ \E k \in 0..Len(auth) : CutInRecord(k))
        => rres = [tag |-> "Err", err |-> "UnexpectedEof"]

\* Two whole records and a cut third one were read.
C15_Witness ==
    /\ cpc = "read_all"
    /\ CutInRecord(2)
    /\ rres.tag = "Err"

\* C13 (SpecExt): a drop of a held lock completes without reporting
\* anything to its caller whichever of NAME-c and NAME-l another party has
\* removed meanwhile, and leaves neither of them in the directory.
C13_ReleaseBestEffort ==
    [][\A p \in Procs :
          (pc[p] = "held" /\ pc'[p] # "held")
              => /\ pc'[p] = "idle"
                 /\ result' = result
                 /\ fs' = EmptyDir]_vars

\* A lock has been dropped whose two files had both been removed by
\* another party: both remove_file calls found nothing.
C13_Witness ==
    \E p \in Procs :
        /\ pc[p] = "idle"
        /\ result[p] = "Ok"
        /\ unlinked[p] = <<"NotFound", "NotFound">>
        /\ fs = EmptyDir

\* C17 (SpecLock): with no call in progress and no lock held (every aqquire
\* has returned, every holder has finished its drop), neither NAME-c nor
\* NAME-l exists, so the next aqquire succeeds.
C17_NoLeak ==
    (\A p \in Procs : pc[p] = "idle") => fs = EmptyDir

\* C18 (SpecLock): a step of another process's aqquire that returns an
\* error while process a holds the lock changes no file, and a's NAME-c and
\* NAME-l are both there, the inode a created.
C18_HolderUndisturbed ==
    [][\A a, p \in Procs :
          (/\ a # p
           /\ pc[a] = "held" /\ pc'[a] = "held"
           /\ pc[p] # pc'[p] \/ result[p] # result'[p]
           /\ result'[p] \notin {"none", "Ok"})
              => /\ fs' = fs
                 /\ fs'[creat_path("NAME")] = a
                 /\ fs'[link_path("NAME")] = a]_vars

\* Two other processes have had their aqquire fail on the collision and the
\* holder's two files are its own.
C18_Witness ==
    \E a, q, r \in Procs :
        /\ a # q /\ q # r /\ a # r
        /\ pc[a] = "held"
        /\ pc[q] = "idle" /\ result[q] = "AlreadyExists"
        /\ pc[r] = "idle" /\ result[r] = "AlreadyExists"
        /\ fs = [n \in FileNames |-> a]

\* C16 (SpecFile): an append(authority) leaves the bytes the file had in
\* place and puts the encoding of authority after them, wherever the file
\* position was; so when the bytes before the append were the encoding of
\* entries E, the get that follows returns E followed by authority's entries.
C16_AppendPreserves ==
    [][/\ fop' = "append" => file' = file \o Encoded(farg')
       /\ fop' = "append_get" =>
             \A E \in AuthoritiesUpTo(MaxEntries + 1) :
                 file' = Encoded(E) \o Encoded(farg')
                     => fres' = [tag |-> "Ok", entries |-> E \o farg']]_vars

\* Entries were appended to a file that held entries, and the get after it
\* returned more entries than were appended, the file being their encoding.
C16_Witness ==
    /\ fop = "append_get"
    /\ Len(farg) > 0
    /\ fres.tag = "Ok"
    /\ Len(fres.entries) > Len(farg)
    /\ file = Encoded(fres.entries)

\* C12 (SpecHandle): from XAuthorityFile::new to the drop of the handle,
\* through every get, set and append, those that return errors included,
\* NAME-c and NAME-l are both there and are the holder's; when the handle is
\* dropped both are removed.
C12_LockForHandleLifetime ==
    [][/\ fop' # "off" =>
             \E p \in Procs : pc'[p] = "held" /\ fs' = [n \in FileNames |-> p]
       /\ (fop # "off" /\ fop' = "off") => fs' = EmptyDir]_vars

\* A get on the open handle has returned an error, the lock files in place.
C12_Witness ==
    /\ fop \in {"get", "set_get", "append_get"}
    /\ fres.tag = "Err"
    /\ \E p \in Procs : pc[p] = "held" /\ fs = [n \in FileNames |-> p]

\* Text t is the decimal numeral of k: digits only, no leading zero, value k.
RECURSIVE DecimalValue(_)
DecimalValue(t) ==
    IF t = <<>> THEN 0
    ELSE 10 * DecimalValue(SubSeq(t, 1, Len(t) - 1)) + (t[Len(t)] - 48)

IsDecimalOf(t, k) ==
    /\ Len(t) > 0
    /\ \A i \in 1..Len(t) : t[i] \in 48..57
    /\ Len(t) > 1 => t[1] # 48
    /\ DecimalValue(t) = k

\* C19 as stated (SpecBuilder): every call of allow returns, the entry of
\* the k-th call (k = 0, 1, 2, ...) has the decimal text of k as its
\* display_number, and free_slot is the number of calls made: it never
\* wraps around.
C19_DistinctSlots ==
    /\ bpc # "panicked"
    /\ free_slot = Len(inner)
    /\ \A i \in 1..Len(inner) : IsDecimalOf(inner[i].display_number, i - 1)

\* C19 amended (SpecBuilder): the first 65,535 calls of allow (k = 0 ..
\* 65,534) each append exactly one entry, whose display_number is the
\* decimal text of k, and leave free_slot = k + 1; the 65,536th call still
\* appends the entry of slot 65535 and then either panics or leaves
\* free_slot = 0; a call panics in no other case.
C19_SlotsUpToLimit ==
    /\ [](/\ \A i \in 1..Len(inner) :
                i <= U16Range => IsDecimalOf(inner[i].display_number, i - 1)
          /\ Len(inner) < U16Range => (free_slot = Len(inner) /\ bpc # "panicked")
          /\ Len(inner) = U16Range =>
                \/ free_slot = 0 /\ bpc # "panicked"
                \/ free_slot = U16Range - 1 /\ bpc = "panicked"
          /\ bpc = "panicked" => Len(inner) = U16Range)
    /\ [][inner' # inner =>
             /\ Len(inner') = Len(inner) + 1
             /\ SubSeq(inner', 1, Len(inner)) = inner]_vars

\* finish() has returned the entries of 65,535 calls, slot 65534 the last.
C19_Witness ==
    /\ bpc = "finished"
    /\ Len(inner) = U16Range - 1
    /\ free_slot = U16Range - 1
    /\ IsDecimalOf(inner[Len(inner)].display_number, U16Range - 2)

====
